---- MODULE Spec2Model ----
(***************************************************************************)
(* A model of nodevers (src/nodevers/shared.py, src/nodevers/remove.py):   *)
(* the prefix directory tree, the registry of installed versions, the      *)
(* Active Link <prefix>/bin, and the commands that change them.            *)
(*                                                                         *)
(* A file name is a sequence of one-character strings; a path is a         *)
(* sequence of file names, absolute from the root directory.  The file     *)
(* system is a function from the canonical paths of the existing entries   *)
(* to their nodes.  A step of a command makes at most one system call that *)
(* changes the file system.                                                *)
(***************************************************************************)
EXTENDS Integers, Sequences, FiniteSets, TLC

\* ------------------------------------------------------------ bounds
\* Longest string handed to the two regular expressions in VerSpec.
MaxLen == 6
\* Number of versions the install collaborator can build.
NumVersions == 2
\* Number of names a patch directory can hold in PatchSpec.
NumPatches == 2

\* ------------------------------------------------------------ characters
Digits == {"0", "1", "2", "3", "4", "5", "6", "7", "8", "9"}
NL == "\n"
TAB == "\t"

\* The characters the strings of VerSpec are made of.
Alphabet == {"1", ".", "v", " ", NL, TAB}

\* ------------------------------------------------------------ regex
\* \d+ is greedy, and what follows it in both patterns is never a digit, so
\* the longest run of digits is the only one a match can use.
RECURSIVE SkipDigits(_, _)
SkipDigits(s, i) ==
    IF i <= Len(s) /\ s[i] \in Digits THEN SkipDigits(s, i + 1) ELSE i

\* Position after \d+ matched at i; 0 when it does not match (or i is 0).
MatchDigits(s, i) ==
    IF i = 0 THEN 0
    ELSE LET j == SkipDigits(s, i) IN IF j > i THEN j ELSE 0

\* Position after the literal c matched at i; 0 when it does not match.
MatchChar(s, i, c) ==
    IF i # 0 /\ i <= Len(s) /\ s[i] = c THEN i + 1 ELSE 0

\* Position after \d+\.\d+\.\d+ matched at i; 0 when it does not match.
MatchTriple(s, i) ==
    MatchDigits(s, MatchChar(s, MatchDigits(s, MatchChar(s, MatchDigits(s, i), ".")), "."))

\* Python's $ (no MULTILINE): the end of the string, or just before a
\* newline that is the last character of the string.
MatchDollar(s, i) ==
    \/ i = Len(s) + 1
    \/ i = Len(s) /\ s[i] = NL

\* shared.valid_version_string: re.match("^(\d+)\.(\d+)\.(\d+)$", ver).
valid_version_string(ver) ==
    LET j == MatchTriple(ver, 1) IN j # 0 /\ MatchDollar(ver, j)

\* What `node -v` produced: no executable on the search path, or its output.
NoNode == <<"ENOENT">>
\* What current_version() does: a raised error, or the returned string.
Raised(e) == <<"raise", e>>

\* shared.current_version: re.match("v(\d+\.\d+\.\d+)", node_output).group(1).
current_version(node_output) ==
    IF node_output = NoNode THEN Raised("OSError")
    ELSE LET j == MatchTriple(node_output, MatchChar(node_output, 1, "v")) IN
         IF j = 0 THEN Raised("AttributeError")
         ELSE SubSeq(node_output, 2, j - 1)

\* ------------------------------------------------------------ file names
Empty == <<>>
Dot == <<".">>
DotDot == <<".", ".">>
N_versions == <<"v", "e", "r", "s", "i", "o", "n", "s">>
N_tmp == <<"t", "m", "p">>
N_patches == <<"p", "a", "t", "c", "h", "e", "s">>
N_global == <<"g", "l", "o", "b", "a", "l">>
N_bin == <<"b", "i", "n">>
N_system == <<"s", "y", "s", "t", "e", "m">>
\* Entries of the root directory: the prefix, a directory elsewhere, and a
\* name nothing has.
N_prefix == <<"n", "v">>
N_ext == <<"e", "x", "t">>
N_gone == <<"g", "o", "n", "e">>

\* The versions the install collaborator can build.
DigitOf == <<"1", "2", "3", "4", "5", "6", "7", "8", "9">>
VersionOf(k) == <<DigitOf[k], ".", "0", ".", "0">>
Versions == { VersionOf(k) : k \in 1..NumVersions }

\* What a user can type as <version>: versions, "system", and strings that
\* are no version.
TwoGroups == <<"1", ".", "2">>
Args == Versions \cup {N_system, Dot, DotDot, Empty, TwoGroups}

\* What `node -v` can print (or NoNode): whichever node is first on the
\* search path answers, the Active Link's or another.
NodeOutputs ==
    { <<"v">> \o v \o <<NL>> : v \in Versions } \cup { <<"n", "o">>, NoNode }

\* ------------------------------------------------------------ paths
\* os.path.join(a, b) for a name b without a slash.
join(a, b) == Append(a, b)

Front(p) == SubSeq(p, 1, Len(p) - 1)
Last(p) == p[Len(p)]
Parent(p) == IF p = <<>> THEN <<>> ELSE Front(p)
IsPrefixOf(p, q) == Len(p) <= Len(q) /\ SubSeq(q, 1, Len(p)) = p

\* shared.get_nodevers_prefix: one fixed path for the life of the run.
get_nodevers_prefix == <<N_prefix>>
get_versions_dir == join(get_nodevers_prefix, N_versions)
get_bin_dir == join(get_nodevers_prefix, N_bin)
get_patches_dir == join(get_nodevers_prefix, N_patches)
get_tmp_dir == join(get_nodevers_prefix, N_tmp)
get_version_dir(ver) == join(get_versions_dir, ver)

\* ------------------------------------------------------------ file system
\* f maps the canonical path of every existing entry to its node.
DirNode == [kind |-> "dir", target |-> <<>>]
FileNode == [kind |-> "file", target |-> <<>>]
LinkNode(t) == [kind |-> "link", target |-> t]

NoPath == << <<"ENOENT">> >>

\* Path resolution: the canonical path of the entry `path` names, or NoPath.
\* Every component but the last is followed through symlinks and must be a
\* directory; the last is followed only when `follow`.  ".", ".." and an
\* empty last component (a trailing slash) name a directory.
RECURSIVE Resolve(_, _, _)
Resolve(f, path, follow) ==
    IF path = <<>> THEN <<>>
    ELSE LET dir == Resolve(f, Front(path), TRUE)
             last == Last(path)
         IN  IF dir = NoPath THEN NoPath
             ELSE IF f[dir].kind # "dir" THEN NoPath
             ELSE IF last \in {Dot, Empty} THEN dir
             ELSE IF last = DotDot THEN Parent(dir)
             ELSE LET e == Append(dir, last) IN
                  IF e \notin DOMAIN f THEN NoPath
                  ELSE IF f[e].kind = "link" /\ follow
                       THEN Resolve(f, f[e].target, TRUE)
                       ELSE e

Children(f, d) == { e \in DOMAIN f : Len(e) = Len(d) + 1 /\ IsPrefixOf(d, e) }

\* os.path.isdir, os.path.exists, os.path.lexists, os.path.islink.
isdir(f, path) ==
    LET e == Resolve(f, path, TRUE) IN e # NoPath /\ f[e].kind = "dir"
exists(f, path) == Resolve(f, path, TRUE) # NoPath
lexists(f, path) == Resolve(f, path, FALSE) # NoPath
islink(f, path) ==
    LET e == Resolve(f, path, FALSE) IN e # NoPath /\ f[e].kind = "link"

\* os.listdir: the names in the directory (isdir(f, path) is required).
listdir(f, path) == { Last(e) : e \in Children(f, Resolve(f, path, TRUE)) }

\* The result of a system call that changes the file system.
Ok(f) == [err |-> "", fs |-> f]
Err(e, f) == [err |-> e, fs |-> f]
Without(f, e) == [q \in DOMAIN f \ {e} |-> f[q]]
With(f, e, node) == [q \in DOMAIN f \cup {e} |-> IF q = e THEN node ELSE f[q]]
PlainName(n) == n \notin {Dot, DotDot, Empty}

\* os.unlink / os.remove.
unlink(f, path) ==
    LET e == Resolve(f, path, FALSE) IN
    IF e = NoPath THEN Err("ENOENT", f)
    ELSE IF f[e].kind = "dir" THEN Err("EISDIR", f)
    ELSE Ok(Without(f, e))

\* os.rmdir.
rmdir(f, path) ==
    LET e == Resolve(f, path, FALSE) IN
    IF e = NoPath THEN Err("ENOENT", f)
    ELSE IF f[e].kind # "dir" THEN Err("ENOTDIR", f)
    ELSE IF Last(path) = Dot THEN Err("EINVAL", f)
    ELSE IF Children(f, e) # {} \/ Last(path) = DotDot THEN Err("ENOTEMPTY", f)
    ELSE IF e = <<>> THEN Err("EBUSY", f)
    ELSE Ok(Without(f, e))

\* The entry a new name would be created at, or the error.
Create(f, path, node) ==
    LET dir == Resolve(f, Front(path), TRUE) IN
    IF dir = NoPath THEN Err("ENOENT", f)
    ELSE IF f[dir].kind # "dir" THEN Err("ENOTDIR", f)
    ELSE IF ~PlainName(Last(path)) \/ Append(dir, Last(path)) \in DOMAIN f
         THEN Err("EEXIST", f)
    ELSE Ok(With(f, Append(dir, Last(path)), node))

\* os.symlink(target, path) and os.mkdir(path).
symlink(f, target, path) == Create(f, path, LinkNode(target))
mkdir(f, path) == Create(f, path, DirNode)

\* os.mkdir in the place of os.makedirs: no parent is created.
makedirs_NoParents(f, name) == mkdir(f, name)

\* os.makedirs (Python 2): the missing parents first, an EEXIST from them
\* forgiven, then the leaf.
RECURSIVE makedirs(_, _)
makedirs(f, name) ==
    LET head == Front(name)
        tail == Last(name)
    IN  IF tail # Empty /\ ~exists(f, head)
        THEN LET r == makedirs(f, head) IN
             IF r.err \notin {"", "EEXIST"} THEN r
             ELSE IF tail = Dot THEN Ok(r.fs)
             ELSE mkdir(r.fs, name)
        ELSE mkdir(f, name)

\* ------------------------------------------------------------ layout
dirs == << <<N_versions>>, <<N_tmp>>, <<N_patches>>, <<N_patches, N_global>> >>

\* valid_nodevers_prefix asking only whether the four names exist.
valid_nodevers_prefix_Exists(f, path) ==
    \A i \in 1..Len(dirs) : exists(f, path \o dirs[i])

\* shared.valid_nodevers_prefix.
valid_nodevers_prefix(f, path) ==
    \A i \in 1..Len(dirs) : isdir(f, path \o dirs[i])

\* shared.version_exists and shared.get_real_version_dir.
version_exists(f, ver) == isdir(f, get_version_dir(ver))
get_real_version_dir(f, ver) ==
    IF version_exists(f, ver) THEN get_version_dir(ver) ELSE NoPath


\* ------------------------------------------------------------ state
\* Invocations of the tool.  In Spec one runs at a time, so one stands for
\* whichever invocation is running.
Procs == {1, 2}
SeqProcs == {1}

VARIABLES
    fs,        \* the file system
    pc,        \* pc[p]: where invocation p is
    cmd,       \* cmd[p]: the command p runs, [op, arg]
    outcome,   \* outcome[p]: "" while running, then "ok", a message or an error
    ltver,     \* ltver[p]: link_to's argument
    ret,       \* ret[p]: where p continues after link_to or rmtree returns
    cur,       \* cur[p]: what current_version() returned to remove
    stack,     \* stack[p]: rmtree's frames, [path, names]
    idx,       \* idx[p]: mknodevers_prefix's position in dirs
    pre,       \* pre[p]: the file system when p's command started (history)
    prev,      \* the last command that finished, [op, arg, outcome] (history)
    overlap,   \* overlap[p]: p's command ran while another was running (history)
    input,     \* VerSpec: the string typed so far
    verdict,   \* VerSpec: "none", or what valid_version_string answered
    tools,     \* ProbeSpec: tools[c]: what running candidate c prints, or NoExe
    probe,     \* ProbeSpec: [fn, at]: the probe running and where it is
    tried,     \* ProbeSpec: the candidates run so far, in order (history)
    found,     \* ProbeSpec: "", the name returned, or "MissingToolError"
    plver,     \* PatchSpec: get_patches_list's argument
    plat,      \* PatchSpec: where get_patches_list is
    plrem,     \* PatchSpec: the names of the listing not yet visited
    plist      \* PatchSpec: patches_list

mainvars == <<fs, pc, cmd, outcome, ltver, ret, cur, stack, idx, pre, prev,
              overlap>>
vervars == <<input, verdict>>
probevars == <<tools, probe, tried, found>>
patchvars == <<plver, plat, plrem, plist>>
purevars == <<vervars, probevars, patchvars>>
vars == <<fs, pc, cmd, outcome, ltver, ret, cur, stack, idx, pre, prev, overlap,
          input, verdict, tools, probe, tried, found, plver, plat, plrem, plist>>

NoCmd == [op |-> "none", arg |-> <<>>]
NoCur == <<"unset">>
RootFs == (<<>> :> DirNode) @@ (<<N_ext>> :> DirNode)

\* A prefix initialize() has just made.
FreshLayout ==
    [q \in {<<>>, <<N_ext>>, get_nodevers_prefix}
           \cup { get_nodevers_prefix \o dirs[i] : i \in 1..Len(dirs) } |-> DirNode]

\* The forms the prefix path can have when the tool is first run.
InitialFs ==
    { RootFs,
      With(RootFs, get_nodevers_prefix, DirNode),
      With(RootFs, get_nodevers_prefix, FileNode),
      With(RootFs, get_nodevers_prefix, LinkNode(<<N_ext>>)),
      With(RootFs, get_nodevers_prefix, LinkNode(<<N_gone>>)),
      FreshLayout }

MainInit ==
    /\ pc = [p \in Procs |-> "idle"]
    /\ cmd = [p \in Procs |-> NoCmd]
    /\ outcome = [p \in Procs |-> ""]
    /\ ltver = [p \in Procs |-> <<>>]
    /\ ret = [p \in Procs |-> ""]
    /\ cur = [p \in Procs |-> NoCur]
    /\ stack = [p \in Procs |-> <<>>]
    /\ idx = [p \in Procs |-> 0]
    /\ pre = [p \in Procs |-> RootFs]
    /\ prev = [op |-> "none", arg |-> <<>>, outcome |-> ""]
    /\ overlap = [p \in Procs |-> FALSE]

\* No probe running.
NoExe == <<"ENOENT">>
NoProbe ==
    /\ tools = [c \in {"python", "python2", "make", "gmake"} |-> NoExe]
    /\ probe = [fn |-> "none", at |-> "idle"]
    /\ tried = <<>>
    /\ found = ""

\* get_patches_list not called.
NoPatches ==
    /\ plver = <<>>
    /\ plat = "idle"
    /\ plrem = {}
    /\ plist = <<>>

Init ==
    /\ fs \in InitialFs
    /\ MainInit
    /\ input = <<>>
    /\ verdict = "none"
    /\ NoProbe
    /\ NoPatches

AllIdle == \A q \in Procs : pc[q] = "idle"

\* q's command has begun and has not ended.
Running(q) == pc[q] \notin {"idle", "done"}

\* p takes a step: it and every other running command are marked when there
\* is another one.
Step(p) ==
    overlap' = [q \in Procs |->
                  IF q = p THEN overlap[p] \/ \E o \in Procs \ {p} : Running(o)
                  ELSE overlap[q] \/ Running(q)]

\* p's command begins: its locals are fresh and the file system is recorded.
Begin(p, op, arg, label) ==
    /\ pc[p] = "idle"
    /\ pc' = [pc EXCEPT ![p] = label]
    /\ cmd' = [cmd EXCEPT ![p] = [op |-> op, arg |-> arg]]
    /\ pre' = [pre EXCEPT ![p] = fs]
    /\ outcome' = [outcome EXCEPT ![p] = ""]
    /\ overlap' = [q \in Procs |->
                     IF q = p THEN \E o \in Procs \ {p} : Running(o)
                     ELSE overlap[q] \/ Running(q)]

\* p goes on at `label`; at "done" its command has returned normally.
Goto(p, label) ==
    /\ pc' = [pc EXCEPT ![p] = label]
    /\ outcome' = [outcome EXCEPT ![p] = IF label = "done" THEN "ok" ELSE @]
    /\ Step(p)

\* p's command ends with the uncaught exception (or the message) e.
Raise(p, e) ==
    /\ pc' = [pc EXCEPT ![p] = "done"]
    /\ outcome' = [outcome EXCEPT ![p] = e]
    /\ Step(p)


\* ------------------------------------------------------------ link_to
\* `use <version|system>`: the command calls link_to(arg).
StartUse(p, a) ==
    /\ Begin(p, "use", a, "lt_start")
    /\ ltver' = [ltver EXCEPT ![p] = a]
    /\ ret' = [ret EXCEPT ![p] = "done"]
    /\ UNCHANGED <<fs, cur, stack, idx, prev, purevars>>

\* link_to without its version_exists test.
LtStart_NoCheck(p) ==
    /\ pc[p] = "lt_start"
    /\ Goto(p, "lt_lexists")
    /\ UNCHANGED <<fs, cmd, ltver, ret, cur, stack, idx, pre, prev, purevars>>

\* link_to, lines 226, 229, 235-236: which branch, or NoSuchVersionError.
LtStart(p) ==
    /\ pc[p] = "lt_start"
    /\ IF ltver[p] = N_system \/ version_exists(fs, ltver[p])
       THEN Goto(p, "lt_lexists")
       ELSE Raise(p, "NoSuchVersionError")
    /\ UNCHANGED <<fs, cmd, ltver, ret, cur, stack, idx, pre, prev, purevars>>

\* link_to creating the new link without removing the old one.
LtLexists_NoUnlink(p) ==
    /\ pc[p] = "lt_lexists"
    /\ IF ltver[p] # N_system THEN Goto(p, "lt_symlink")
       ELSE IF lexists(fs, get_bin_dir) THEN Goto(p, "lt_unlink")
       ELSE Goto(p, ret[p])
    /\ UNCHANGED <<fs, cmd, ltver, ret, cur, stack, idx, pre, prev, purevars>>

\* link_to unlinking without asking whether the link exists.
LtLexists_NoTest(p) ==
    /\ pc[p] = "lt_lexists"
    /\ Goto(p, "lt_unlink")
    /\ UNCHANGED <<fs, cmd, ltver, ret, cur, stack, idx, pre, prev, purevars>>

\* link_to, lines 227 and 230: if os.path.lexists(get_bin_dir()).
LtLexists(p) ==
    /\ pc[p] = "lt_lexists"
    /\ IF lexists(fs, get_bin_dir) THEN Goto(p, "lt_unlink")
       ELSE IF ltver[p] = N_system THEN Goto(p, ret[p])
       ELSE Goto(p, "lt_symlink")
    /\ UNCHANGED <<fs, cmd, ltver, ret, cur, stack, idx, pre, prev, purevars>>

\* link_to going on without having removed the link.
LtUnlink_Keep(p) ==
    /\ pc[p] = "lt_unlink"
    /\ Goto(p, IF ltver[p] = N_system THEN ret[p] ELSE "lt_symlink")
    /\ UNCHANGED <<fs, cmd, ltver, ret, cur, stack, idx, pre, prev, purevars>>

\* link_to, lines 228 and 231: os.unlink(get_bin_dir()).
LtUnlink(p) ==
    /\ pc[p] = "lt_unlink"
    /\ LET r == unlink(fs, get_bin_dir) IN
       IF r.err # "" THEN Raise(p, "OSError") /\ UNCHANGED fs
       ELSE /\ fs' = r.fs
            /\ Goto(p, IF ltver[p] = N_system THEN ret[p] ELSE "lt_symlink")
    /\ UNCHANGED <<cmd, ltver, ret, cur, stack, idx, pre, prev, purevars>>

\* link_to, lines 232-234: os.symlink(<versions>/<ver>/bin, get_bin_dir()).
LtSymlink(p) ==
    /\ pc[p] = "lt_symlink"
    /\ LET r == symlink(fs, join(get_version_dir(ltver[p]), N_bin), get_bin_dir) IN
       IF r.err # "" THEN Raise(p, "OSError") /\ UNCHANGED fs
       ELSE fs' = r.fs /\ Goto(p, ret[p])
    /\ UNCHANGED <<cmd, ltver, ret, cur, stack, idx, pre, prev, purevars>>

\* ------------------------------------------------------------ rmtree
\* shutil.rmtree(path) (Python 2) begins: one frame for path.
CallRmtree(p, path, after) ==
    /\ stack' = [stack EXCEPT ![p] = <<[path |-> path, names |-> {}]>>]
    /\ ret' = [ret EXCEPT ![p] = after]
    /\ Goto(p, "rt_islink")

Top(p) == stack[p][Len(stack[p])]

\* rmtree refuses a symbolic link.
RtIslink(p) ==
    /\ pc[p] = "rt_islink"
    /\ IF islink(fs, Top(p).path) THEN Raise(p, "OSError")
       ELSE Goto(p, "rt_listdir")
    /\ UNCHANGED <<fs, cmd, ltver, ret, cur, stack, idx, pre, prev, purevars>>

\* names = os.listdir(path); an error is raised by the default onerror.
RtListdir(p) ==
    /\ pc[p] = "rt_listdir"
    /\ IF isdir(fs, Top(p).path)
       THEN /\ stack' = [stack EXCEPT ![p][Len(stack[p])].names =
                              listdir(fs, Top(p).path)]
            /\ Goto(p, "rt_child")
       ELSE Raise(p, "OSError") /\ UNCHANGED stack
    /\ UNCHANGED <<fs, cmd, ltver, ret, cur, idx, pre, prev, purevars>>

\* One name of the listing, in whatever order the listing has: a directory
\* (by lstat) is entered, anything else is removed.
RtChild(p) ==
    /\ pc[p] = "rt_child"
    /\ \E n \in Top(p).names :
         LET fullname == join(Top(p).path, n)
             e == Resolve(fs, fullname, FALSE)
             rest == [stack[p] EXCEPT ![Len(stack[p])].names = @ \ {n}]
         IN  IF e # NoPath /\ fs[e].kind = "dir"
             THEN /\ stack' = [stack EXCEPT ![p] =
                                 Append(rest, [path |-> fullname, names |-> {}])]
                  /\ Goto(p, "rt_islink")
                  /\ UNCHANGED fs
             ELSE LET r == unlink(fs, fullname) IN
                  IF r.err # ""
                  THEN Raise(p, "OSError") /\ UNCHANGED <<fs, stack>>
                  ELSE /\ fs' = r.fs
                       /\ stack' = [stack EXCEPT ![p] = rest]
                       /\ Step(p)
                       /\ UNCHANGED <<pc, outcome>>
    /\ UNCHANGED <<cmd, ltver, ret, cur, idx, pre, prev, purevars>>

\* The listing is done: os.rmdir(path), and the frame returns.
RtRmdir(p) ==
    /\ pc[p] = "rt_child"
    /\ Top(p).names = {}
    /\ LET r == rmdir(fs, Top(p).path) IN
       IF r.err # "" THEN Raise(p, "OSError") /\ UNCHANGED <<fs, stack>>
       ELSE /\ fs' = r.fs
            /\ stack' = [stack EXCEPT ![p] = Front(@)]
            /\ Goto(p, IF Len(stack[p]) = 1 THEN ret[p] ELSE "rt_child")
    /\ UNCHANGED <<cmd, ltver, ret, cur, idx, pre, prev, purevars>>

\* ------------------------------------------------------------ remove
\* `remove <version>`: remove.parse with one argument.
StartRemove(p, a) ==
    /\ Begin(p, "remove", a, "rp_exists")
    /\ UNCHANGED <<fs, ltver, ret, cur, stack, idx, prev, purevars>>

\* parse calling remove() without asking whether the version is installed.
RpExists_NoCheck(p) ==
    /\ pc[p] = "rp_exists"
    /\ Goto(p, "rm_current")
    /\ UNCHANGED <<fs, cmd, ltver, ret, cur, stack, idx, pre, prev, purevars>>

\* parse, lines 47-50: remove(args[0]) if it is installed, else the message.
RpExists(p) ==
    /\ pc[p] = "rp_exists"
    /\ IF version_exists(fs, cmd[p].arg) THEN Goto(p, "rm_current")
       ELSE Raise(p, "not_installed")
    /\ UNCHANGED <<fs, cmd, ltver, ret, cur, stack, idx, pre, prev, purevars>>

\* remove switching to "system" whatever version discovery returned.
RmCurrent_AlwaysSwitch(p) ==
    /\ pc[p] = "rm_current"
    /\ \E out \in NodeOutputs :
         LET cv == current_version(out) IN
         IF Len(cv) = 2 /\ cv[1] = "raise"
         THEN Raise(p, cv[2]) /\ UNCHANGED <<cur, ltver, ret>>
         ELSE /\ cur' = [cur EXCEPT ![p] = cv]
              /\ ltver' = [ltver EXCEPT ![p] = N_system]
              /\ ret' = [ret EXCEPT ![p] = "rm_rmtree"]
              /\ Goto(p, "lt_start")
    /\ UNCHANGED <<fs, cmd, stack, idx, pre, prev, purevars>>

\* remove deleting the active version without switching to "system".
RmCurrent_NoSwitch(p) ==
    /\ pc[p] = "rm_current"
    /\ \E out \in NodeOutputs :
         LET cv == current_version(out) IN
         IF Len(cv) = 2 /\ cv[1] = "raise"
         THEN Raise(p, cv[2]) /\ UNCHANGED cur
         ELSE cur' = [cur EXCEPT ![p] = cv] /\ Goto(p, "rm_rmtree")
    /\ UNCHANGED <<fs, cmd, ltver, ret, stack, idx, pre, prev, purevars>>

\* remove going on to delete when version discovery has failed.
RmCurrent_IgnoreFailure(p) ==
    /\ pc[p] = "rm_current"
    /\ \E out \in NodeOutputs :
         LET cv == current_version(out) IN
         IF Len(cv) = 2 /\ cv[1] = "raise"
         THEN Goto(p, "rm_rmtree") /\ UNCHANGED <<cur, ltver, ret>>
         ELSE /\ cur' = [cur EXCEPT ![p] = cv]
              /\ IF cmd[p].arg = cv
                 THEN /\ ltver' = [ltver EXCEPT ![p] = N_system]
                      /\ ret' = [ret EXCEPT ![p] = "rm_rmtree"]
                      /\ Goto(p, "lt_start")
                 ELSE Goto(p, "rm_rmtree") /\ UNCHANGED <<ltver, ret>>
    /\ UNCHANGED <<fs, cmd, stack, idx, pre, prev, purevars>>

\* remove, lines 26-27: if ver == current_version(): link_to("system").
RmCurrent(p) ==
    /\ pc[p] = "rm_current"
    /\ \E out \in NodeOutputs :
         LET cv == current_version(out) IN
         IF Len(cv) = 2 /\ cv[1] = "raise"
         THEN Raise(p, cv[2]) /\ UNCHANGED <<cur, ltver, ret>>
         ELSE /\ cur' = [cur EXCEPT ![p] = cv]
              /\ IF cmd[p].arg = cv
                 THEN /\ ltver' = [ltver EXCEPT ![p] = N_system]
                      /\ ret' = [ret EXCEPT ![p] = "rm_rmtree"]
                      /\ Goto(p, "lt_start")
                 ELSE Goto(p, "rm_rmtree") /\ UNCHANGED <<ltver, ret>>
    /\ UNCHANGED <<fs, cmd, stack, idx, pre, prev, purevars>>

\* remove returning without deleting the directory.
RmRmtree_Skip(p) ==
    /\ pc[p] = "rm_rmtree"
    /\ Goto(p, "done")
    /\ UNCHANGED <<fs, cmd, ltver, ret, cur, stack, idx, pre, prev, purevars>>

\* remove, line 28: shutil.rmtree(get_version_dir(ver)).
RmRmtree(p) ==
    /\ pc[p] = "rm_rmtree"
    /\ CallRmtree(p, get_version_dir(cmd[p].arg), "done")
    /\ UNCHANGED <<fs, cmd, ltver, cur, idx, pre, prev, purevars>>

\* ------------------------------------------------------------ initialize
StartInit(p) ==
    /\ Begin(p, "init", <<>>, "mk_exists")
    /\ UNCHANGED <<fs, ltver, ret, cur, stack, idx, prev, purevars>>

\* mknodevers_prefix, lines 60-61: if os.path.exists(path): rmtree(path).
MkExists(p) ==
    /\ pc[p] = "mk_exists"
    /\ idx' = [idx EXCEPT ![p] = 1]
    /\ IF exists(fs, get_nodevers_prefix)
       THEN CallRmtree(p, get_nodevers_prefix, "mk_dirs")
       ELSE Goto(p, "mk_dirs") /\ UNCHANGED <<stack, ret>>
    /\ UNCHANGED <<fs, cmd, ltver, cur, pre, prev, purevars>>

\* mknodevers_prefix, lines 63-65: os.makedirs of the next of dirs.
MkDirs(p) ==
    /\ pc[p] = "mk_dirs"
    /\ LET r == makedirs(fs, get_nodevers_prefix \o dirs[idx[p]]) IN
       IF r.err # "" THEN Raise(p, "OSError") /\ UNCHANGED <<fs, idx>>
       ELSE /\ fs' = r.fs
            /\ idx' = [idx EXCEPT ![p] = @ + 1]
            /\ Goto(p, IF idx[p] = Len(dirs) THEN "done" ELSE "mk_dirs")
    /\ UNCHANGED <<cmd, ltver, ret, cur, stack, pre, prev, purevars>>

\* ------------------------------------------------------------ install
\* The install collaborator puts a built version in place: its directory
\* with a bin subdirectory.
Install(p, v) ==
    /\ valid_nodevers_prefix(fs, get_nodevers_prefix)
    /\ ~lexists(fs, get_version_dir(v))
    /\ Begin(p, "install", v, "in_copy")
    /\ UNCHANGED <<fs, ltver, ret, cur, stack, idx, prev, purevars>>

InCopy(p) ==
    /\ pc[p] = "in_copy"
    /\ LET r == makedirs(fs, join(get_version_dir(cmd[p].arg), N_bin)) IN
       IF r.err # "" THEN Raise(p, "OSError") /\ UNCHANGED fs
       ELSE fs' = r.fs /\ Goto(p, "done")
    /\ UNCHANGED <<cmd, ltver, ret, cur, stack, idx, pre, prev, purevars>>

\* ------------------------------------------------------------ exit
\* The invocation's process exits.
Finish(p) ==
    /\ pc[p] = "done"
    /\ prev' = [op |-> cmd[p].op, arg |-> cmd[p].arg, outcome |-> outcome[p]]
    /\ pc' = [pc EXCEPT ![p] = "idle"]
    /\ cmd' = [cmd EXCEPT ![p] = NoCmd]
    /\ outcome' = [outcome EXCEPT ![p] = ""]
    /\ ltver' = [ltver EXCEPT ![p] = <<>>]
    /\ ret' = [ret EXCEPT ![p] = ""]
    /\ cur' = [cur EXCEPT ![p] = NoCur]
    /\ stack' = [stack EXCEPT ![p] = <<>>]
    /\ idx' = [idx EXCEPT ![p] = 0]
    /\ pre' = [pre EXCEPT ![p] = RootFs]
    /\ overlap' = [overlap EXCEPT ![p] = FALSE]
    /\ UNCHANGED <<fs, purevars>>

\* ------------------------------------------------------------ Spec
\* One invocation at a time: a command starts when no other is running.
Next ==
    \E p \in SeqProcs :
        \/ AllIdle /\ \E a \in Args : StartUse(p, a)
        \/ AllIdle /\ \E a \in Args : StartRemove(p, a)
        \/ AllIdle /\ StartInit(p)
        \/ AllIdle /\ \E v \in Versions : Install(p, v)
        \/ LtStart(p) \/ LtLexists(p) \/ LtUnlink(p) \/ LtSymlink(p)
        \/ RtIslink(p) \/ RtListdir(p) \/ RtChild(p) \/ RtRmdir(p)
        \/ RpExists(p) \/ RmCurrent(p) \/ RmRmtree(p)
        \/ MkExists(p) \/ MkDirs(p)
        \/ InCopy(p)
        \/ Finish(p)

Spec == Init /\ [][Next]_vars

\* ------------------------------------------------------------ VerSpec
\* Version Identity alone: a string is typed and valid_version_string is
\* asked about it.
Type(c) ==
    /\ verdict = "none"
    /\ Len(input) < MaxLen
    /\ input' = Append(input, c)
    /\ UNCHANGED <<verdict, mainvars, probevars, patchvars>>

Validate ==
    /\ verdict = "none"
    /\ verdict' = IF valid_version_string(input) THEN "accept" ELSE "reject"
    /\ UNCHANGED <<input, mainvars, probevars, patchvars>>

VerInit ==
    /\ fs = FreshLayout
    /\ MainInit
    /\ input = <<>>
    /\ verdict = "none"
    /\ NoProbe
    /\ NoPatches

VerNext == (\E c \in Alphabet : Type(c)) \/ Validate

VerSpec == VerInit /\ [][VerNext]_vars

\* ------------------------------------------------------------ registry
\* list_installed: the entries of versions/ that are directories.
list_installed(f) ==
    { n \in listdir(f, get_versions_dir) : isdir(f, join(get_versions_dir, n)) }

\* The Active Link's target, or NoPath when there is no link.
LinkTarget(f) ==
    IF islink(f, get_bin_dir) THEN f[get_bin_dir].target ELSE NoPath

BinOf(v) == join(get_version_dir(v), N_bin)
Under(f, d) == { q \in DOMAIN f : IsPrefixOf(d, q) }
Outside(f, d) == [q \in DOMAIN f \ Under(f, d) |-> f[q]]
Use(p) == cmd[p].op = "use"
Remove(p) == cmd[p].op = "remove"
Initialize(p) == cmd[p].op = "init"
Done(p) == pc[p] = "done"

\* ------------------------------------------------------------ claims

\* C1: activate(v) for a Version v that is not installed fails with the
\* "no such installed version" error and changes nothing: at every step of
\* the call the file system (the Active Link and the installed versions) is
\* what it was when the call began.
C1_ActivateNotInstalled ==
    \A p \in Procs :
        (Use(p) /\ valid_version_string(cmd[p].arg)
                /\ ~version_exists(pre[p], cmd[p].arg))
        => /\ fs = pre[p]
           /\ Done(p) => outcome[p] = "NoSuchVersionError"

C1_Witness ==
    \E p \in Procs :
        /\ Use(p) /\ Done(p) /\ cmd[p].arg \in Versions
        /\ ~version_exists(pre[p], cmd[p].arg)
        /\ lexists(pre[p], get_bin_dir)
        /\ outcome[p] = "NoSuchVersionError"

\* C2: activate(v2) right after activate(v1), both installed, ends with the
\* Active Link pointing at <versions>/v2/bin; inside it the link is v1's
\* until it is removed, and it is created only when no link exists.
C2_SwitchTarget ==
    \A p \in Procs :
        (Use(p) /\ cmd[p].arg # N_system /\ version_exists(pre[p], cmd[p].arg)
                /\ prev.op = "use" /\ prev.arg \in Versions /\ prev.outcome = "ok")
        => /\ LinkTarget(pre[p]) = BinOf(prev.arg)
           /\ pc[p] \in {"lt_start", "lt_lexists", "lt_unlink"} => fs = pre[p]
           /\ pc[p] = "lt_symlink" => ~lexists(fs, get_bin_dir)
           /\ Done(p) => /\ outcome[p] = "ok"
                         /\ LinkTarget(fs) = BinOf(cmd[p].arg)

C2_Witness ==
    \E p \in Procs :
        /\ Use(p) /\ Done(p) /\ outcome[p] = "ok"
        /\ prev.op = "use" /\ prev.arg \in Versions /\ prev.outcome = "ok"
        /\ cmd[p].arg \in Versions /\ cmd[p].arg # prev.arg
        /\ LinkTarget(pre[p]) = BinOf(prev.arg)
        /\ LinkTarget(fs) = BinOf(cmd[p].arg)

\* C3: when current_version() returned v, remove(v) has no state in which
\* <versions>/v is being deleted or is gone while the Active Link exists,
\* and it ends with both gone.
C3_SwitchBeforeDelete ==
    \A p \in Procs :
        (Remove(p) /\ cur[p] = cmd[p].arg)
        => /\ (\/ pc[p] \in {"rm_rmtree", "rt_islink", "rt_listdir", "rt_child"}
               \/ ~version_exists(fs, cmd[p].arg))
              => ~lexists(fs, get_bin_dir)
           /\ Done(p) => /\ outcome[p] = "ok"
                         /\ ~version_exists(fs, cmd[p].arg)

C3_Witness ==
    \E p \in Procs :
        /\ Remove(p) /\ Done(p) /\ cur[p] = cmd[p].arg
        /\ LinkTarget(pre[p]) = BinOf(cmd[p].arg)
        /\ ~version_exists(fs, cmd[p].arg)
        /\ ~lexists(fs, get_bin_dir)

\* C4: the remove command for a Version that is not installed ends with the
\* "not installed" message, never reaches remove() or version discovery,
\* and changes nothing.
C4_RemoveNotInstalled ==
    \A p \in Procs :
        (Remove(p) /\ valid_version_string(cmd[p].arg)
                   /\ ~version_exists(pre[p], cmd[p].arg))
        => /\ fs = pre[p]
           /\ pc[p] \in {"rp_exists", "done"}
           /\ Done(p) => outcome[p] = "not_installed"

C4_Witness ==
    \E p \in Procs :
        /\ Remove(p) /\ Done(p) /\ cmd[p].arg \in Versions
        /\ ~version_exists(pre[p], cmd[p].arg)
        /\ lexists(pre[p], get_bin_dir)
        /\ outcome[p] = "not_installed"

\* C5: the remove command given a string that is no version deletes
\* nothing: at every step the file system is what it was when the command
\* began.
C5_MalformedRejected ==
    \A p \in Procs :
        (Remove(p) /\ ~valid_version_string(cmd[p].arg)) => fs = pre[p]

\* Three non-empty groups of digits with one dot between them and nothing
\* else.
ThreeGroups(s) ==
    \E i, j \in 1..Len(s) :
        /\ 1 < i /\ i + 1 < j /\ j < Len(s)
        /\ s[i] = "." /\ s[j] = "."
        /\ \A k \in (1..Len(s)) \ {i, j} : s[k] \in Digits

\* C6: Version Identity accepts a string if and only if it is exactly three
\* dot-separated non-empty groups of digits.
C6_AcceptsIffThreeGroups ==
    verdict # "none" => (verdict = "accept" <=> ThreeGroups(input))

\* C7: activate("system") ends without error and with no Active Link from
\* any state, and one that follows another changes nothing.
C7_SystemIdempotent ==
    \A p \in Procs :
        (Use(p) /\ cmd[p].arg = N_system)
        => /\ Done(p) => outcome[p] = "ok" /\ ~lexists(fs, get_bin_dir)
           /\ (prev.op = "use" /\ prev.arg = N_system)
              => /\ prev.outcome = "ok"
                 /\ ~lexists(pre[p], get_bin_dir)
                 /\ fs = pre[p]

C7_Witness ==
    \E p \in Procs :
        /\ Use(p) /\ Done(p) /\ cmd[p].arg = N_system
        /\ prev.op = "use" /\ prev.arg = N_system
        /\ outcome[p] = "ok" /\ fs = pre[p]

EmptyOrMissing(f) ==
    \/ ~lexists(f, get_nodevers_prefix)
    \/ /\ f[get_nodevers_prefix].kind = "dir"
       /\ Children(f, get_nodevers_prefix) = {}

\* C8: initialize on a missing or empty prefix succeeds, leaves under the
\* prefix exactly the directories versions, tmp, patches and patches/global,
\* changes nothing outside it, and is_valid is then true.
C8_FreshInit ==
    \A p \in Procs :
        (Initialize(p) /\ Done(p) /\ EmptyOrMissing(pre[p]))
        => /\ outcome[p] = "ok"
           /\ Under(fs, get_nodevers_prefix) =
                {get_nodevers_prefix} \cup
                { get_nodevers_prefix \o d :
                    d \in { <<N_versions>>, <<N_tmp>>, <<N_patches>>,
                            <<N_patches, N_global>> } }
           /\ \A q \in Under(fs, get_nodevers_prefix) : fs[q].kind = "dir"
           /\ Outside(fs, get_nodevers_prefix) = Outside(pre[p], get_nodevers_prefix)
           /\ valid_nodevers_prefix(fs, get_nodevers_prefix)

C8_Witness ==
    \E p \in Procs :
        /\ Initialize(p) /\ Done(p) /\ ~lexists(pre[p], get_nodevers_prefix)
        /\ outcome[p] = "ok"
        /\ valid_nodevers_prefix(fs, get_nodevers_prefix)

\* C9: initialize on a prefix that exists in any form succeeds and leaves a
\* valid layout with no installed version and no Active Link.
C9_DestructiveReset ==
    \A p \in Procs :
        (Initialize(p) /\ Done(p) /\ lexists(pre[p], get_nodevers_prefix))
        => /\ outcome[p] = "ok"
           /\ valid_nodevers_prefix(fs, get_nodevers_prefix)
           /\ list_installed(fs) = {}
           /\ ~lexists(fs, get_bin_dir)

\* C10: once v is installed exists(v) is true and v is listed; once
\* remove(v) has completed exists(v) is false, resolved_path_for(v) is none,
\* and the listing is the one before without v.
C10_RoundTrip ==
    \A p \in Procs :
        /\ (cmd[p].op = "install" /\ Done(p))
           => /\ outcome[p] = "ok"
              /\ version_exists(fs, cmd[p].arg)
              /\ get_real_version_dir(fs, cmd[p].arg) = get_version_dir(cmd[p].arg)
              /\ list_installed(fs) = list_installed(pre[p]) \cup {cmd[p].arg}
        /\ (Remove(p) /\ valid_version_string(cmd[p].arg) /\ Done(p)
                      /\ outcome[p] = "ok")
           => /\ version_exists(pre[p], cmd[p].arg)
              /\ ~version_exists(fs, cmd[p].arg)
              /\ get_real_version_dir(fs, cmd[p].arg) = NoPath
              /\ list_installed(fs) = list_installed(pre[p]) \ {cmd[p].arg}
              /\ \A w \in list_installed(fs) : isdir(fs, BinOf(w))

C10_Witness ==
    \E p \in Procs :
        /\ Remove(p) /\ Done(p) /\ outcome[p] = "ok"
        /\ prev.op = "install" /\ prev.arg = cmd[p].arg
        /\ list_installed(fs) # {}
        /\ ~version_exists(fs, cmd[p].arg)

\* C11: while version discovery has returned nothing to remove(v), remove
\* has deleted nothing and changed no link; when discovery fails, its error
\* (OSError for no executable, AttributeError for output that does not
\* start with v<major>.<minor>.<patch>) ends the command there.
C11_DiscoveryFailureStops ==
    \A p \in Procs :
        (Remove(p) /\ cur[p] = NoCur)
        => /\ pc[p] \in {"rp_exists", "rm_current", "done"}
           /\ fs = pre[p]
           /\ Done(p) => outcome[p] \in {"not_installed", "OSError", "AttributeError"}

C11_Witness ==
    \E p \in Procs :
        /\ Remove(p) /\ Done(p) /\ cur[p] = NoCur
        /\ outcome[p] = "AttributeError"
        /\ LinkTarget(fs) = BinOf(cmd[p].arg)
        /\ version_exists(fs, cmd[p].arg)

\* ------------------------------------------------------------ toolchain probe
\* What `<candidate> -V` and `<candidate> -v` can print.
B_py273 == <<"P", "y", "t", "h", "o", "n", " ", "2", ".", "7", ".", "3", "\n">>
B_py269 == <<"P", "y", "t", "h", "o", "n", " ", "2", ".", "6", ".", "9", "\n">>
B_py340 == <<"P", "y", "t", "h", "o", "n", " ", "3", ".", "4", ".", "0", "\n">>
B_py254 == <<"P", "y", "t", "h", "o", "n", " ", "2", ".", "5", ".", "4", "\n">>
B_py27 == <<"P", "y", "t", "h", "o", "n", " ", "2", ".", "7", "\n">>
B_pylow == <<"p", "y", "t", "h", "o", "n", " ", "2", ".", "7", ".", "3", "\n">>
B_gnuMake == <<"G", "N", "U", " ", "M", "a", "k", "e", " ", "3", ".", "8", "1", "\n">>
B_gnumake == <<"G", "N", "U", " ", "m", "a", "k", "e", " ", "3", ".", "7", "9", "\n">>
B_bsd == <<"u", "s", "a", "g", "e", ":", " ", "m", "a", "k", "e", "\n">>
B_lower == <<"g", "n", "u", " ", "m", "a", "k", "e", "\n">>
B_notfirst == <<" ", "G", "N", "U", " ", "M", "a", "k", "e", "\n">>
PyOutputs == {B_py273, B_py269, B_py340, B_py254, B_py27, B_pylow, NoExe}
MkOutputs == {B_gnuMake, B_gnumake, B_bsd, B_lower, B_notfirst, NoExe}

\* Position after the literal string lit matched at i; 0 when it does not.
RECURSIVE MatchLiteral(_, _, _)
MatchLiteral(s, i, lit) ==
    IF lit = <<>> THEN i
    ELSE MatchLiteral(s, MatchChar(s, i, Head(lit)), Tail(lit))

\* Position after one character of the class cls matched at i; 0 otherwise.
MatchClass(s, i, cls) ==
    IF i # 0 /\ i <= Len(s) /\ s[i] \in cls THEN i + 1 ELSE 0

\* __try_python accepting every Python 2: "Python (2\.\d+\.\d+)".
try_python_AnyPython2(out) ==
    /\ out # NoExe
    /\ MatchTriple(out, MatchLiteral(out, 1, <<"P", "y", "t", "h", "o", "n", " ">>)) # 0
    /\ out[8] = "2"

\* shared.__try_python: re.match("Python (2\.[67]\.\d+)", stderr of -V);
\* False when the executable cannot be run (OSError).
try_python(out) ==
    /\ out # NoExe
    /\ MatchDigits(out,
         MatchChar(out,
           MatchClass(out,
             MatchLiteral(out, 1, <<"P", "y", "t", "h", "o", "n", " ", "2", ".">>),
             {"6", "7"}),
           ".")) # 0

\* shared.__try_make: re.match("GNU [Mm]ake", stdout of -v).
try_make(out) ==
    /\ out # NoExe
    /\ MatchLiteral(out,
         MatchClass(out, MatchLiteral(out, 1, <<"G", "N", "U", " ">>), {"M", "m"}),
         <<"a", "k", "e">>) # 0

\* python() and gmake(): the candidates in the order they are tried, and
\* the test applied to each.
Candidates(fn) ==
    IF fn = "python" THEN <<"python", "python2">> ELSE <<"make", "gmake">>
Try(fn, c) ==
    IF fn = "python" THEN try_python(tools[c]) ELSE try_make(tools[c])

\* python() or gmake() is called.
StartProbe(fn) ==
    /\ probe.at = "idle"
    /\ probe' = [fn |-> fn, at |-> "first"]
    /\ UNCHANGED <<tools, tried, found, vervars, patchvars, mainvars>>

\* python, lines 194-195, and gmake, lines 205-206: the first candidate.
ProbeFirst ==
    /\ probe.at = "first"
    /\ tried' = Append(tried, Candidates(probe.fn)[1])
    /\ IF Try(probe.fn, Candidates(probe.fn)[1])
       THEN found' = Candidates(probe.fn)[1] /\ probe' = [probe EXCEPT !.at = "done"]
       ELSE found' = found /\ probe' = [probe EXCEPT !.at = "second"]
    /\ UNCHANGED <<tools, vervars, patchvars, mainvars>>

\* python, lines 196-199, and gmake, lines 207-210: the second candidate,
\* or MissingToolError.
ProbeSecond ==
    /\ probe.at = "second"
    /\ tried' = Append(tried, Candidates(probe.fn)[2])
    /\ found' = IF Try(probe.fn, Candidates(probe.fn)[2])
                THEN Candidates(probe.fn)[2] ELSE "MissingToolError"
    /\ probe' = [probe EXCEPT !.at = "done"]
    /\ UNCHANGED <<tools, vervars, patchvars, mainvars>>

ProbeInit ==
    /\ fs = FreshLayout
    /\ MainInit
    /\ input = <<>>
    /\ verdict = "none"
    /\ tools \in [{"python", "python2", "make", "gmake"} -> PyOutputs \cup MkOutputs]
    /\ \A c \in {"python", "python2"} : tools[c] \in PyOutputs
    /\ \A c \in {"make", "gmake"} : tools[c] \in MkOutputs
    /\ probe = [fn |-> "none", at |-> "idle"]
    /\ tried = <<>>
    /\ found = ""
    /\ NoPatches

ProbeNext == (\E fn \in {"python", "gmake"} : StartProbe(fn)) \/ ProbeFirst \/ ProbeSecond

ProbeSpec == ProbeInit /\ [][ProbeNext]_vars

\* The banners of a Python 2.6.x or 2.7.x, and of a GNU make.
Acceptable(fn) ==
    IF fn = "python" THEN {B_py273, B_py269} ELSE {B_gnuMake, B_gnumake}
Usable(fn, k) == tools[Candidates(fn)[k]] \in Acceptable(fn)

\* C12: a probe runs its candidates in their fixed order and returns the
\* first that can be run and prints an acceptable banner: the first alone is
\* run when it is usable, the second is run and returned only when the first
\* is not, and with neither usable the probe raises MissingToolError.
C12_ProbeOrder ==
    probe.at = "done" =>
        LET fn == probe.fn
            c == Candidates(fn)
        IN  /\ Usable(fn, 1) => found = c[1] /\ tried = <<c[1]>>
            /\ (~Usable(fn, 1) /\ Usable(fn, 2)) => found = c[2] /\ tried = c
            /\ (~Usable(fn, 1) /\ ~Usable(fn, 2))
               => found = "MissingToolError" /\ tried = c

C12_Witness ==
    /\ probe = [fn |-> "python", at |-> "done"]
    /\ tools["python"] = B_py340
    /\ tools["python2"] = B_py273
    /\ found = "python2"
    /\ tried = <<"python", "python2">>

\* ------------------------------------------------------------ patches
\* The names the user can give entries of a patch directory.
PatchNames == { <<"p", DigitOf[k]>> : k \in 1..NumPatches }
global_patch_dir == join(get_patches_dir, N_global)
version_patch_dir(ver) == join(get_patches_dir, ver)

\* A directory d holding the entries kinds[n] # "none", of that kind.
Populate(f, d, kinds) ==
    [q \in DOMAIN f \cup {d} \cup { join(d, n) : n \in { m \in PatchNames : kinds[m] # "none" } } |->
        IF q \in DOMAIN f THEN f[q]
        ELSE IF q = d THEN DirNode
        ELSE [kind |-> kinds[Last(q)], target |-> <<>>]]

\* A valid prefix with the patches the user has put in patches/global and,
\* when there is one, in the patch directory of the first version.
PatchLayouts ==
    LET K == [PatchNames -> {"none", "file", "dir"}]
        G == { Populate(FreshLayout, global_patch_dir, k) : k \in K }
    IN  G \cup { Populate(g, version_patch_dir(VersionOf(1)), k) : g \in G, k \in K }

\* get_patches_list taking every entry for a patch.
IsPatch_Any(f, full_path) == TRUE

\* get_patches_list, lines 139 and 144: if not os.path.isdir(full_path).
IsPatch(f, full_path) == ~isdir(f, full_path)

\* get_patches_list, lines 134-137: the listing of the global directory.
PlStart(v) ==
    /\ plat = "idle"
    /\ isdir(fs, global_patch_dir)
    /\ plver' = v
    /\ plist' = <<>>
    /\ plrem' = listdir(fs, global_patch_dir)
    /\ plat' = "global"
    /\ UNCHANGED <<mainvars, vervars, probevars>>

\* get_patches_list, lines 137-140: one entry of the global directory, in
\* whatever order the listing has.
PlGlobal ==
    /\ plat = "global"
    /\ \E n \in plrem :
         /\ plrem' = plrem \ {n}
         /\ plist' = IF IsPatch(fs, join(global_patch_dir, n))
                     THEN Append(plist, join(global_patch_dir, n)) ELSE plist
    /\ UNCHANGED <<plver, plat, mainvars, vervars, probevars>>

\* get_patches_list, lines 141 and 146: the version's directory is listed
\* if it is a directory; otherwise the list is returned.
PlIsdir ==
    /\ plat = "global"
    /\ plrem = {}
    /\ IF isdir(fs, version_patch_dir(plver))
       THEN plat' = "version" /\ plrem' = listdir(fs, version_patch_dir(plver))
       ELSE plat' = "done" /\ plrem' = {}
    /\ UNCHANGED <<plver, plist, mainvars, vervars, probevars>>

\* get_patches_list, lines 142-145: one entry of the version's directory.
PlVersion ==
    /\ plat = "version"
    /\ \E n \in plrem :
         /\ plrem' = plrem \ {n}
         /\ plist' = IF IsPatch(fs, join(version_patch_dir(plver), n))
                     THEN Append(plist, join(version_patch_dir(plver), n)) ELSE plist
    /\ UNCHANGED <<plver, plat, mainvars, vervars, probevars>>

\* get_patches_list, line 146: return patches_list.
PlReturn ==
    /\ plat = "version"
    /\ plrem = {}
    /\ plat' = "done"
    /\ UNCHANGED <<plver, plrem, plist, mainvars, vervars, probevars>>

PatchInit ==
    /\ fs \in PatchLayouts
    /\ MainInit
    /\ input = <<>>
    /\ verdict = "none"
    /\ NoProbe
    /\ NoPatches

PatchNext ==
    (\E v \in Versions : PlStart(v)) \/ PlGlobal \/ PlIsdir \/ PlVersion \/ PlReturn

PatchSpec == PatchInit /\ [][PatchNext]_vars

\* The entries of directory d that are not directories, by their paths.
FilesIn(d) == { e \in DOMAIN fs : Front(e) = d /\ fs[e].kind # "dir" }

\* C13: the list returned is the non-directory entries of patches/global,
\* each once, followed by the non-directory entries of patches/<v>, each
\* once; with no patches/<v> it is the global entries alone.
C13_GlobalThenVersion ==
    plat = "done" =>
        LET G == FilesIn(global_patch_dir)
            V == IF version_patch_dir(plver) \in DOMAIN fs
                 THEN FilesIn(version_patch_dir(plver)) ELSE {}
            k == Cardinality(G)
        IN  /\ Len(plist) = k + Cardinality(V)
            /\ { plist[i] : i \in 1..k } = G
            /\ { plist[i] : i \in (k + 1)..Len(plist) } = V

C13_Witness ==
    /\ plat = "done"
    /\ plver = VersionOf(1)
    /\ Len(plist) = 3
    /\ Front(plist[1]) = global_patch_dir
    /\ Front(plist[2]) = global_patch_dir
    /\ plist[3] = join(version_patch_dir(plver), Last(plist[1]))
    /\ \E e \in DOMAIN fs : Front(e) = version_patch_dir(plver) /\ fs[e].kind = "dir"

\* C14: activate(version) on a prefix that has an Active Link is not
\* atomic: when it is about to create the new link no link exists (a reader
\* then sees "system" mode), and in every state of the switch the link is
\* absent, or the old one, or the new one.
C14_NotAtomic ==
    \A p \in Procs :
        (Use(p) /\ cmd[p].arg # N_system /\ lexists(pre[p], get_bin_dir))
        => /\ pc[p] = "lt_symlink" => ~lexists(fs, get_bin_dir)
           /\ lexists(fs, get_bin_dir) => islink(fs, get_bin_dir)
           /\ LinkTarget(fs) \in {NoPath, LinkTarget(pre[p]), BinOf(cmd[p].arg)}
           /\ (Done(p) /\ outcome[p] = "ok") => LinkTarget(fs) = BinOf(cmd[p].arg)

C14_Witness ==
    \E p \in Procs :
        /\ Use(p) /\ pc[p] = "lt_symlink"
        /\ cmd[p].arg \in Versions
        /\ \E v \in Versions : v # cmd[p].arg /\ LinkTarget(pre[p]) = BinOf(v)
        /\ ~lexists(fs, get_bin_dir)

\* ------------------------------------------------------------ is_valid
\* The layouts a user can have left under the prefix: each required name
\* missing, a directory or a file.
LayoutForms ==
    LET K == {"none", "dir", "file"}
        Node(k) == [kind |-> k, target |-> <<>>]
        P == get_nodevers_prefix
        Base == With(RootFs, P, DirNode)
        Three(kv, kt, kp) ==
            [q \in DOMAIN Base
                   \cup (IF kv = "none" THEN {} ELSE {P \o dirs[1]})
                   \cup (IF kt = "none" THEN {} ELSE {P \o dirs[2]})
                   \cup (IF kp = "none" THEN {} ELSE {P \o dirs[3]}) |->
                IF q \in DOMAIN Base THEN Base[q]
                ELSE IF q = P \o dirs[1] THEN Node(kv)
                ELSE IF q = P \o dirs[2] THEN Node(kt)
                ELSE Node(kp)]
    IN  { Three(kv, kt, kp) : kv \in K, kt \in K, kp \in K }
        \cup { With(Three(kv, kt, "dir"), P \o dirs[4], Node(kg)) :
                 kv \in K, kt \in K, kg \in {"dir", "file"} }

\* is_valid: the command calls valid_nodevers_prefix(get_nodevers_prefix()).
StartValid(p) ==
    /\ Begin(p, "valid", <<>>, "iv_check")
    /\ UNCHANGED <<fs, ltver, ret, cur, stack, idx, prev, purevars>>

\* valid_nodevers_prefix, lines 48-53: what it returns.
IvCheck(p) ==
    /\ pc[p] = "iv_check"
    /\ Raise(p, IF valid_nodevers_prefix(fs, get_nodevers_prefix)
                THEN "True" ELSE "False")
    /\ UNCHANGED <<fs, cmd, ltver, ret, cur, stack, idx, pre, prev, purevars>>

LayoutInit ==
    /\ fs \in LayoutForms
    /\ MainInit
    /\ input = <<>>
    /\ verdict = "none"
    /\ NoProbe
    /\ NoPatches

LayoutNext ==
    \E p \in SeqProcs :
        \/ AllIdle /\ StartValid(p)
        \/ IvCheck(p)
        \/ Finish(p)

LayoutSpec == LayoutInit /\ [][LayoutNext]_vars

\* C16: is_valid answers true exactly when versions, tmp, patches and
\* patches/global are all there and all directories, and it changes nothing.
C16_ValidIffAllFour ==
    \A p \in Procs :
        cmd[p].op = "valid"
        => /\ fs = pre[p]
           /\ Done(p) =>
                /\ outcome[p] \in {"True", "False"}
                /\ outcome[p] = "True" <=>
                     \A d \in { <<N_versions>>, <<N_tmp>>, <<N_patches>>,
                                <<N_patches, N_global>> } :
                        /\ get_nodevers_prefix \o d \in DOMAIN fs
                        /\ fs[get_nodevers_prefix \o d].kind = "dir"

C16_Witness ==
    \E p \in Procs :
        /\ cmd[p].op = "valid" /\ Done(p) /\ outcome[p] = "False"
        /\ isdir(fs, get_versions_dir) /\ isdir(fs, get_patches_dir)
        /\ isdir(fs, get_tmp_dir)
        /\ lexists(fs, join(get_patches_dir, N_global))

\* C18: remove(v) of an installed version that discovery did not return
\* changes nothing outside <versions>/v, the Active Link included, and ends
\* with <versions>/v gone; activate(target) changes nothing under versions/.
C18_Frame ==
    \A p \in Procs :
        /\ (Remove(p) /\ valid_version_string(cmd[p].arg)
                      /\ cur[p] \notin {NoCur, cmd[p].arg})
           => /\ Outside(fs, get_version_dir(cmd[p].arg)) =
                    Outside(pre[p], get_version_dir(cmd[p].arg))
              /\ Done(p) => outcome[p] = "ok" /\ ~version_exists(fs, cmd[p].arg)
        /\ Use(p)
           => Outside(fs, get_bin_dir) = Outside(pre[p], get_bin_dir)

C18_Witness ==
    \E p \in Procs :
        /\ Remove(p) /\ Done(p) /\ outcome[p] = "ok"
        /\ cur[p] \notin {NoCur, cmd[p].arg}
        /\ \E w \in Versions : w # cmd[p].arg /\ LinkTarget(fs) = BinOf(w)
        /\ list_installed(fs) # {}

\* ------------------------------------------------------------ WfSpec
\* Commands on a valid prefix, one at a time, each given a version (or
\* "system" for use): install, use and remove.
WfInit ==
    /\ fs = FreshLayout
    /\ MainInit
    /\ input = <<>>
    /\ verdict = "none"
    /\ NoProbe
    /\ NoPatches

WfNext ==
    \E p \in SeqProcs :
        \/ AllIdle /\ \E a \in Versions \cup {N_system} : StartUse(p, a)
        \/ AllIdle /\ \E a \in Versions : StartRemove(p, a)
        \/ AllIdle /\ \E v \in Versions : Install(p, v)
        \/ LtStart(p) \/ LtLexists(p) \/ LtUnlink(p) \/ LtSymlink(p)
        \/ RtIslink(p) \/ RtListdir(p) \/ RtChild(p) \/ RtRmdir(p)
        \/ RpExists(p) \/ RmCurrent(p) \/ RmRmtree(p)
        \/ InCopy(p)
        \/ Finish(p)

WfSpec == WfInit /\ [][WfNext]_vars

\* C17: between commands the Active Link is absent or points at the bin
\* directory of a version that is installed.
C17_NoDanglingLink ==
    AllIdle =>
        \/ ~lexists(fs, get_bin_dir)
        \/ \E v \in Versions :
             /\ version_exists(fs, v)
             /\ LinkTarget(fs) = BinOf(v)

\* ------------------------------------------------------------ ConcSpec
\* Two invocations on the same prefix, started at any time, their steps in
\* any order: no lock is taken anywhere in the code.  Each runs one use or
\* one remove.  The registry they start from is one that completed installs,
\* uses and removes leave: versions installed with their bin directories, the
\* Active Link absent or pointing at an installed version.
Installed(vs) ==
    LET made == { get_version_dir(v) : v \in vs } \cup { BinOf(v) : v \in vs } IN
    [q \in DOMAIN FreshLayout \cup made |-> DirNode]

Registries ==
    { Installed(vs) : vs \in SUBSET Versions }
    \cup { With(Installed(vs), get_bin_dir, LinkNode(BinOf(v))) :
              vs \in SUBSET Versions, v \in Versions }

ConcInit ==
    /\ fs \in { f \in Registries :
                  islink(f, get_bin_dir)
                  => \E v \in Versions : /\ version_exists(f, v)
                                         /\ LinkTarget(f) = BinOf(v) }
    /\ MainInit
    /\ input = <<>>
    /\ verdict = "none"
    /\ NoProbe
    /\ NoPatches

ConcNext ==
    \E p \in Procs :
        \/ cmd[p] = NoCmd /\ \E a \in Versions \cup {N_system} : StartUse(p, a)
        \/ cmd[p] = NoCmd /\ \E a \in Versions : StartRemove(p, a)
        \/ LtStart(p) \/ LtLexists(p) \/ LtUnlink(p) \/ LtSymlink(p)
        \/ RtIslink(p) \/ RtListdir(p) \/ RtChild(p) \/ RtRmdir(p)
        \/ RpExists(p) \/ RmCurrent(p) \/ RmRmtree(p)

ConcSpec == ConcInit /\ [][ConcNext]_vars

\* C15: the inconsistent ends come from the interleaving, not from either
\* command alone.  An invocation that fails on a file-system error (in
\* link_to or rmtree: a remove whose discovery failed has cur unset), and a
\* remove(v) that saw v active, switched to system and returned normally with
\* the Active Link pointing at the deleted version's bin directory, ran while
\* another invocation was running.
C15_OnlyWhenInterleaved ==
    \A p \in Procs :
        /\ (/\ Done(p) /\ outcome[p] = "OSError"
            /\ Use(p) \/ cur[p] # NoCur)
           => overlap[p]
        /\ (/\ Remove(p) /\ Done(p) /\ outcome[p] = "ok"
            /\ cur[p] = cmd[p].arg
            /\ LinkTarget(fs) = BinOf(cmd[p].arg))
           => overlap[p]

\* use(v) and remove(v) have both returned normally, remove(v) having seen v
\* active, and the Active Link points at versions/v/bin, which is gone.
C15_Witness ==
    \E p, q \in Procs :
        /\ Use(p) /\ Done(p) /\ outcome[p] = "ok"
        /\ Remove(q) /\ Done(q) /\ outcome[q] = "ok"
        /\ cmd[p].arg = cmd[q].arg
        /\ cur[q] = cmd[q].arg
        /\ version_exists(pre[p], cmd[p].arg)
        /\ version_exists(pre[q], cmd[q].arg)
        /\ LinkTarget(fs) = BinOf(cmd[p].arg)
        /\ ~lexists(fs, get_version_dir(cmd[p].arg))

====
